---------------------------- MODULE Spec2Model ----------------------------
(***************************************************************************)
(* Model of the file storage server of src/server.js: the storage-path     *)
(* resolution (dir -> cleanDir -> uploadDir), the naming allocator of the  *)
(* multer disk storage (storage.filename) and the handlers of              *)
(* POST /upload, DELETE /files/:filePath, GET /files/:filePath and GET     *)
(* /files, over a model of the directory tree they act on.                 *)
(*                                                                         *)
(* A string is a sequence of one-character strings.  An absolute path is   *)
(* a record [segs, trail]: the segments below "/" after path.join's        *)
(* normalisation, and whether the normalised string ends with "/".         *)
(***************************************************************************)
EXTENDS Naturals, Integers, Sequences, FiniteSets, Bags, TLC

VARIABLES
  fs,       \* the directory tree on disk
  pre,      \* the tree as it was when the request in service began
  req,      \* the request in service
  resp,     \* its response
  streak,   \* the stored uploads of the current run of uploads of one
            \* original name, without desired name, into one directory
  deleted,  \* the paths deleted with success and not stored to since
  jobs      \* the uploads in flight when uploads are served concurrently

vars == <<fs, pre, req, resp, streak, deleted, jobs>>

---------------------------------------------------------------------------
(* Strings of the requests the model draws from.                           *)

Empty == <<>>

S_p == <<"p">>
S_slash_p_slash == <<"/", "p", "/">>
S_sp_p == <<" ", "p">>
S_up_x == <<".", ".", "/", "x">>
S_at == <<"a", ".", "t">>
S_a == <<"a">>
S_cu == <<"c", ".", "u">>
S_sp_cu == <<" ", "c", ".", "u">>
S_q_at == <<"q", "/", "a", ".", "t">>
S_up_at == <<".", ".", "/", "a", ".", "t">>
S_a1t == <<"a", "_", "1", ".", "t">>
S_p_at == <<"p", "/", "a", ".", "t">>
S_up_x_at == <<".", ".", "/", "x", "/", "a", ".", "t">>
S_zz == <<"z", "z">>
S_srv == <<"s", "r", "v">>
S_public == <<"p", "u", "b", "l", "i", "c">>
S_slash_sp_p == <<"/", " ", "p">>
S_p_q == <<"p", "/", "q">>
S_js == <<"s", ".", "j">>

---------------------------------------------------------------------------
(* String primitives of JavaScript used by the code.                       *)

IsWhite(c) == c = " "

RECURSIVE TrimStart(_)
TrimStart(s) ==
  IF s # <<>> /\ IsWhite(Head(s)) THEN TrimStart(Tail(s)) ELSE s

RECURSIVE TrimEnd(_)
TrimEnd(s) ==
  IF s # <<>> /\ IsWhite(s[Len(s)]) THEN TrimEnd(SubSeq(s, 1, Len(s) - 1)) ELSE s

\* String.prototype.trim
Trim(s) == TrimEnd(TrimStart(s))

\* .replace(/^\/+/, '')
RECURSIVE StripLeadingSlashes(_)
StripLeadingSlashes(s) ==
  IF s # <<>> /\ Head(s) = "/" THEN StripLeadingSlashes(Tail(s)) ELSE s

\* .replace(/\/+$/, '')
RECURSIVE StripTrailingSlashes(_)
StripTrailingSlashes(s) ==
  IF s # <<>> /\ s[Len(s)] = "/"
    THEN StripTrailingSlashes(SubSeq(s, 1, Len(s) - 1))
    ELSE s

\* .replace(/^\//, ''): one leading slash only
StripOneLeadingSlash(s) ==
  IF s # <<>> /\ Head(s) = "/" THEN Tail(s) ELSE s

Digit(d) == <<"0", "1", "2", "3", "4", "5", "6", "7", "8", "9">>[d + 1]

\* the decimal text of a number, as a template literal prints it
RECURSIVE NumToStr(_)
NumToStr(n) ==
  IF n < 10 THEN <<Digit(n)>> ELSE NumToStr(n \div 10) \o <<Digit(n % 10)>>

IsPrefixAt(pat, s, i) ==
  /\ i + Len(pat) - 1 <= Len(s)
  /\ SubSeq(s, i, i + Len(pat) - 1) = pat

\* String.prototype.replace(pat, '') with a string pattern: the first
\* occurrence only
ReplaceFirst(s, pat) ==
  LET hits == {i \in 1..Len(s) : IsPrefixAt(pat, s, i)}
  IN IF pat = <<>> \/ hits = {} THEN s
     ELSE LET i == CHOOSE j \in hits : \A k \in hits : j <= k
          IN SubSeq(s, 1, i - 1) \o SubSeq(s, i + Len(pat), Len(s))

---------------------------------------------------------------------------
(* Node's posix path module.                                               *)

RECURSIVE SplitAcc(_, _, _)
SplitAcc(s, cur, acc) ==
  IF s = <<>> THEN Append(acc, cur)
  ELSE IF Head(s) = "/" THEN SplitAcc(Tail(s), <<>>, Append(acc, cur))
  ELSE SplitAcc(Tail(s), Append(cur, Head(s)), acc)

\* the pieces of s between its "/" characters, empty pieces included
Split(s) == SplitAcc(s, <<>>, <<>>)

\* path.normalize on an absolute path: "" and "." segments vanish, ".."
\* removes the segment before it and is dropped at "/"
RECURSIVE NormalizeSegs(_, _)
NormalizeSegs(segs, acc) ==
  IF segs = <<>> THEN acc
  ELSE LET s == Head(segs)
       IN IF s = <<>> \/ s = <<".">> THEN NormalizeSegs(Tail(segs), acc)
          ELSE IF s = <<".", ".">>
            THEN NormalizeSegs(Tail(segs),
                               IF acc = <<>> THEN acc
                               ELSE SubSeq(acc, 1, Len(acc) - 1))
          ELSE NormalizeSegs(Tail(segs), Append(acc, s))

\* path.join(base, rel) for an absolute, normalised base: empty arguments
\* are skipped, the rest joined with "/" and normalised
PathJoin(base, rel) ==
  IF rel = <<>> THEN base
  ELSE LET segs == NormalizeSegs(Split(rel), base.segs)
       IN [segs |-> segs, trail |-> segs # <<>> /\ rel[Len(rel)] = "/"]

RECURSIVE JoinSegs(_)
JoinSegs(segs) ==
  IF segs = <<>> THEN <<>> ELSE <<"/">> \o Head(segs) \o JoinSegs(Tail(segs))

\* the string of an absolute path
PathStr(p) ==
  IF p.segs = <<>> THEN <<"/">>
  ELSE JoinSegs(p.segs) \o (IF p.trail THEN <<"/">> ELSE <<>>)

\* the last non-empty piece of a path string, trailing slashes ignored
LastPart(s) ==
  LET t == StripTrailingSlashes(s)
      parts == Split(t)
  IN IF t = <<>> THEN <<>> ELSE parts[Len(parts)]

LastDot(b) ==
  LET dots == {i \in 1..Len(b) : b[i] = "."}
  IN IF dots = {} THEN 0 ELSE CHOOSE i \in dots : \A j \in dots : j <= i

\* path.extname: from the last "." of the last part to its end; empty when
\* there is no ".", when the only "." leads the part, and for ".."
extname(s) ==
  LET b == LastPart(s)
      d == LastDot(b)
  IN IF d = 0 \/ d = 1 \/ b = <<".", ".">> THEN <<>> ELSE SubSeq(b, d, Len(b))

IsSuffix(suf, b) ==
  /\ Len(suf) <= Len(b)
  /\ SubSeq(b, Len(b) - Len(suf) + 1, Len(b)) = suf

\* path.basename(s, ext): the last part, without ext when it ends with ext
\* and is longer than ext
basename(s, ext) ==
  LET b == LastPart(s)
  IN IF ext # <<>> /\ ext = s THEN <<>>
     ELSE IF ext # <<>> /\ Len(ext) <= Len(s) /\ IsSuffix(ext, b) /\ Len(ext) < Len(b)
       THEN SubSeq(b, 1, Len(b) - Len(ext))
     ELSE b

---------------------------------------------------------------------------
(* The directory tree: a function from the segments of an absolute path   *)
(* to the node there.  Every node's parent is a directory of the tree.    *)

DirNode == [kind |-> "dir", data |-> <<>>]
FileNode(data) == [kind |-> "file", data |-> data]

Parent(segs) == SubSeq(segs, 1, Len(segs) - 1)
Prefixes(segs) == {SubSeq(segs, 1, i) : i \in 0..Len(segs)}

\* fs.existsSync: a path ending in "/" exists only as a directory
existsSync(f, p) ==
  /\ p.segs \in DOMAIN f
  /\ p.trail => f[p.segs].kind = "dir"

\* fs.statSync(p).isFile() / .isDirectory() / .size, for an existing p
isFile(f, p) == f[p.segs].kind = "file"
isDirectory(f, p) == f[p.segs].kind = "dir"
statSize(f, p) == Len(f[p.segs].data)

\* fs.mkdirSync as it would be if it threw for a directory that exists
mkdirThrows_exists(f, p) ==
  \/ p.segs \in DOMAIN f
  \/ \E q \in Prefixes(p.segs) : q \in DOMAIN f /\ f[q].kind = "file"

\* fs.mkdirSync(p, {recursive: true}) throws when a segment of p is a
\* regular file, and then has created nothing
mkdirThrows(f, p) ==
  \E q \in Prefixes(p.segs) : q \in DOMAIN f /\ f[q].kind = "file"

mkdirSync(f, p) ==
  [q \in DOMAIN f \cup Prefixes(p.segs) |-> IF q \in DOMAIN f THEN f[q] ELSE DirNode]

\* unlinkSync as it would be if it removed the files beside the target too
unlinkSync_siblings(f, p) ==
  [q \in {r \in DOMAIN f : r = <<>> \/ f[r].kind = "dir" \/ Parent(r) # Parent(p.segs)}
     |-> f[q]]

\* unlinkSync as it would be if it removed nothing
unlinkSync_keeps(f, p) == f

\* the write stream as it would be if it refused to open an existing file
writeFails_exclusive(f, p) ==
  \/ p.trail
  \/ p.segs = <<>>
  \/ Parent(p.segs) \notin DOMAIN f
  \/ f[Parent(p.segs)].kind # "dir"
  \/ p.segs \in DOMAIN f

\* fs.unlinkSync
unlinkSync(f, p) == [q \in DOMAIN f \ {p.segs} |-> f[q]]

\* readdirSync as it would be if it skipped sub-directories
readdirSync_filesOnly(f, p) ==
  {q[Len(q)] : q \in {r \in DOMAIN f : r # <<>> /\ Parent(r) = p.segs
                                          /\ f[r].kind = "file"}}

\* fs.readdirSync: the names of the immediate children
readdirSync(f, p) ==
  {q[Len(q)] : q \in {r \in DOMAIN f : r # <<>> /\ Parent(r) = p.segs}}

\* the write stream multer opens on the final path (flags "w"): it needs
\* an existing parent directory and a target that is not a directory
writeFails(f, p) ==
  \/ p.trail
  \/ p.segs = <<>>
  \/ Parent(p.segs) \notin DOMAIN f
  \/ f[Parent(p.segs)].kind # "dir"
  \/ (p.segs \in DOMAIN f /\ f[p.segs].kind = "dir")

writeFile(f, p, data) ==
  [q \in DOMAIN f \cup {p.segs} |-> IF q = p.segs THEN FileNode(data) ELSE f[q]]

---------------------------------------------------------------------------
(* Process start: lines 20-24.                                             *)

\* __dirname is /srv, so publicDir is /srv/public
publicDir == [segs |-> <<S_srv, S_public>>, trail |-> FALSE]

\* the tree when the server starts serving: the program's own file s.j
\* beside the storage root, and the storage root created if absent
InitFs ==
  [q \in {<<>>, <<S_srv>>, <<S_srv, S_public>>, <<S_srv, S_js>>} |->
     IF q = <<S_srv, S_js>> THEN FileNode(<<7, 7, 7>>) ELSE DirNode]

---------------------------------------------------------------------------
(* multer disk storage: destination and filename (lines 27-108).           *)

\* lines 30-37 and 50-56: body field first, query field when that is empty
dirParam(r) == IF r.bodyDir # <<>> THEN r.bodyDir ELSE r.queryDir

\* lines 40, 58, 126
cleanDir(dir) ==
  IF dir # <<>> THEN StripTrailingSlashes(StripLeadingSlashes(Trim(dir))) ELSE <<>>

\* lines 42, 59
uploadDir(r) == PathJoin(publicDir, cleanDir(dirParam(r)))

\* lines 62-68
customFileName(r) ==
  LET b == IF r.bodyFileName # <<>> THEN Trim(r.bodyFileName) ELSE <<>>
  IN IF b = <<>> /\ r.queryFileName # <<>> THEN Trim(r.queryFileName) ELSE b

\* candidateName as it would be if the original extension were appended
\* to every desired name
candidateName_alwaysExt(r) ==
  LET custom == customFileName(r)
  IN IF custom # <<>> THEN custom \o extname(r.originalname) ELSE r.originalname

\* lines 70-93: finalName before the collision check
candidateName(r) ==
  LET custom == customFileName(r)
      fileExt == extname(r.originalname)
  IN IF custom # <<>>
       THEN IF extname(custom) # <<>> THEN custom ELSE custom \o fileExt
       ELSE r.originalname

\* numberedName as it would be if the counter were incremented first
numberedName_offByOne(finalName, counter) ==
  LET ext == extname(finalName)
  IN basename(finalName, ext) \o <<"_">> \o NumToStr(counter + 1) \o ext

\* line 101
numberedName(finalName, counter) ==
  LET ext == extname(finalName)
      nameWithoutExt == basename(finalName, ext)
  IN nameWithoutExt \o <<"_">> \o NumToStr(counter) \o ext

\* the loop as it would be without the existence check
tempNameLoop_nocheck(f, dir, finalName, tempName, counter) == tempName

\* lines 96-104: the while loop
RECURSIVE tempNameLoop(_, _, _, _, _)
tempNameLoop(f, dir, finalName, tempName, counter) ==
  IF existsSync(f, PathJoin(dir, tempName))
    THEN tempNameLoop(f, dir, finalName, numberedName(finalName, counter), counter + 1)
    ELSE tempName

\* storage.filename as it would be if it looked for collisions in
\* publicDir instead of uploadDir
filename_ignoresDir(f, r) ==
  tempNameLoop(f, publicDir, candidateName(r), candidateName(r), 1)

\* storage.filename: the name handed to cb, on the tree f it runs against
filename(f, r) ==
  tempNameLoop(f, uploadDir(r), candidateName(r), candidateName(r), 1)

---------------------------------------------------------------------------
(* Bounds and the requests drawn.                                          *)

\* uploads are accepted while the tree holds fewer than this many entries
\* more than at start
MaxEntries == 3

\* req.protocol + "://" + req.get("host")
Origin == <<"h">>

Payloads == {<<1>>, <<2, 3>>}

UploadReq(d, viaQuery, n, o, b) ==
  [op |-> "Upload", hasFile |-> TRUE,
   bodyDir |-> IF viaQuery THEN Empty ELSE d,
   queryDir |-> IF viaQuery THEN d ELSE Empty,
   bodyFileName |-> n, queryFileName |-> Empty,
   originalname |-> o, data |-> b]

NoFileReq(d) ==
  [op |-> "Upload", hasFile |-> FALSE, bodyDir |-> d, queryDir |-> Empty,
   bodyFileName |-> Empty, queryFileName |-> Empty,
   originalname |-> Empty, data |-> <<>>]

\* uploads into the storage root, over the desired names and the payloads
NamingUploads ==
  {UploadReq(Empty, FALSE, Empty, S_at, b) : b \in Payloads}
  \cup {UploadReq(Empty, FALSE, n, S_at, <<2, 3>>) : n \in {S_a, S_cu, S_sp_cu}}
  \cup {UploadReq(Empty, FALSE, S_q_at, S_at, <<1>>)}

\* uploads over the directory strings
DirStrings == {Empty, S_p, S_slash_p_slash, S_sp_p, S_up_x, S_at, S_slash_sp_p}

DirUploads ==
  {UploadReq(d, FALSE, Empty, S_at, <<1>>) : d \in DirStrings \ {Empty}}
  \cup {UploadReq(S_p, TRUE, Empty, S_at, <<1>>),
        UploadReq(S_p, FALSE, S_a, S_at, <<1>>),
        UploadReq(S_p, FALSE, S_up_at, S_at, <<1>>)}

\* an upload that names a directory in the body and another in the query
BothDirsReq ==
  [op |-> "Upload", hasFile |-> TRUE, bodyDir |-> S_p, queryDir |-> S_zz,
   bodyFileName |-> Empty, queryFileName |-> Empty,
   originalname |-> S_at, data |-> <<1>>]

UploadRequests ==
  NamingUploads \cup DirUploads \cup {BothDirsReq}
    \cup {NoFileReq(Empty), NoFileReq(S_p)}

FilePaths == {S_at, S_a1t, S_cu, S_p, S_p_at, S_up_x_at, S_zz}

FolderStrings == DirStrings \cup {S_at}

---------------------------------------------------------------------------
(* Requests are served one after the other: a handler runs when no        *)
(* request is in service, and its response is then delivered.             *)

\* the requests in flight at one time when uploads are served concurrently
Slots == {1, 2}

NoJob == [stage |-> "idle"]

NoRequest == [op |-> "none"]
NoResponse == [status |-> 0, kind |-> "none"]

Idle == req = NoRequest

\* the response is sent (res.json) and the request is over
Reply ==
  /\ ~Idle
  /\ req' = NoRequest
  /\ resp' = NoResponse
  /\ pre' = fs
  /\ fs' = fs
  /\ UNCHANGED <<streak, deleted, jobs>>

---------------------------------------------------------------------------
(* POST /upload: upload.single("file") and the handler (lines 110-141).    *)

\* req.file.path: multer joins the destination and the filename
finalPath(f, r) == PathJoin(uploadDir(r), filename(f, r))

\* lines 124-140: the response of a stored upload
uploadResponse(r, name, p) ==
  LET relativePath == StripOneLeadingSlash(ReplaceFirst(PathStr(p), PathStr(publicDir)))
  IN [status |-> 200, kind |-> "OK",
      filename |-> name,
      customFileName |-> r.bodyFileName,
      folder |-> cleanDir(r.bodyDir),
      path |-> p,
      relativePath |-> relativePath,
      url |-> <<"/">> \o relativePath,
      dir |-> r.bodyDir]

\* the tree and the response an upload r ends with on the tree f.  Without
\* a file part the storage is not called (lines 120-122).  An exception of
\* mkdirSync (line 45) is caught by nothing in the code.  An error of the
\* write stream reaches express's error handler
uploadOutcome_mkdirFirst(f, r) ==
  IF ~r.hasFile
    THEN [fs |-> IF mkdirThrows(f, uploadDir(r)) THEN f ELSE mkdirSync(f, uploadDir(r)),
          resp |-> [status |-> 400, kind |-> "NoFileProvided"]]
  ELSE IF mkdirThrows(f, uploadDir(r))
    THEN [fs |-> f, resp |-> [status |-> 0, kind |-> "Unhandled"]]
  ELSE LET f1 == mkdirSync(f, uploadDir(r))
           name == filename(f1, r)
           p == finalPath(f1, r)
       IN IF writeFails(f1, p)
            THEN [fs |-> f1, resp |-> [status |-> 500, kind |-> "IOFailure"]]
            ELSE [fs |-> writeFile(f1, p, r.data), resp |-> uploadResponse(r, name, p)]

uploadOutcome(f, r) ==
  IF ~r.hasFile
    THEN [fs |-> f, resp |-> [status |-> 400, kind |-> "NoFileProvided"]]
  ELSE IF mkdirThrows(f, uploadDir(r))
    THEN [fs |-> f, resp |-> [status |-> 0, kind |-> "Unhandled"]]
  ELSE LET f1 == mkdirSync(f, uploadDir(r))
           name == filename(f1, r)
           p == finalPath(f1, r)
       IN IF writeFails(f1, p)
            THEN [fs |-> f1, resp |-> [status |-> 500, kind |-> "IOFailure"]]
            ELSE [fs |-> writeFile(f1, p, r.data), resp |-> uploadResponse(r, name, p)]

\* the run of uploads after the upload r answered with rsp: a stored
\* upload without desired name extends the run of its directory and
\* original name or starts one, any other upload ends the run
streakAfter(run, r, rsp) ==
  IF rsp.kind = "OK" /\ customFileName(r) = <<>>
    THEN LET e == [dir |-> uploadDir(r), originalname |-> r.originalname,
                   filename |-> rsp.filename, path |-> rsp.path, data |-> r.data]
         IN IF run # <<>> /\ run[1].dir = e.dir /\ run[1].originalname = e.originalname
              THEN Append(run, e)
              ELSE <<e>>
    ELSE <<>>

Upload ==
  /\ Idle
  /\ Cardinality(DOMAIN fs) < Cardinality(DOMAIN InitFs) + MaxEntries
  /\ \E r \in UploadRequests :
       LET out == uploadOutcome(fs, r)
       IN /\ req' = r
          /\ pre' = fs
          /\ fs' = out.fs
          /\ resp' = out.resp
          /\ streak' = streakAfter(streak, r, out.resp)
          /\ deleted' = {s \in deleted : ~existsSync(out.fs, PathJoin(publicDir, s))}
          /\ UNCHANGED jobs

---------------------------------------------------------------------------
(* DELETE /files/:filePath (lines 144-168).                             *)

\* the delete handler as it would be without the isFile check
deleteOutcome_noFileCheck(f, r) ==
  LET filePath == PathJoin(publicDir, r.filePath)
  IN IF ~existsSync(f, filePath)
       THEN [fs |-> f, resp |-> [status |-> 404, kind |-> "NotFound"]]
       ELSE [fs |-> unlinkSync(f, filePath),
             resp |-> [status |-> 200, kind |-> "OK", filePath |-> r.filePath]]

deleteOutcome(f, r) ==
  LET filePath == PathJoin(publicDir, r.filePath)
  IN IF ~existsSync(f, filePath)
       THEN [fs |-> f, resp |-> [status |-> 404, kind |-> "NotFound"]]
     ELSE IF ~isFile(f, filePath)
       THEN [fs |-> f, resp |-> [status |-> 400, kind |-> "NotAFile"]]
     ELSE [fs |-> unlinkSync(f, filePath),
           resp |-> [status |-> 200, kind |-> "OK", filePath |-> r.filePath]]

Delete ==
  /\ Idle
  /\ \E s \in FilePaths :
       LET r == [op |-> "Delete", filePath |-> s]
           out == deleteOutcome(fs, r)
       IN /\ req' = r
          /\ pre' = fs
          /\ fs' = out.fs
          /\ resp' = out.resp
          /\ streak' = <<>>
          /\ deleted' = IF out.resp.kind = "OK" THEN deleted \cup {s} ELSE deleted
          /\ UNCHANGED jobs

---------------------------------------------------------------------------
(* GET /files/:filePath (lines 171-200).                                *)

getInfoResponse(f, r) ==
  LET filePath == PathJoin(publicDir, r.filePath)
  IN IF ~existsSync(f, filePath)
       THEN [status |-> 404, kind |-> "NotFound"]
       ELSE [status |-> 200, kind |-> "OK",
             record |->
               [name |-> basename(PathStr(filePath), <<>>),
                path |-> filePath,
                relativePath |-> r.filePath,
                url |-> [null |-> FALSE, str |-> Origin \o <<"/">> \o r.filePath],
                size |-> statSize(f, filePath),
                isFile |-> isFile(f, filePath),
                isDirectory |-> isDirectory(f, filePath)]]

GetInfo ==
  /\ Idle
  /\ \E s \in FilePaths :
       LET r == [op |-> "GetInfo", filePath |-> s]
       IN /\ req' = r
          /\ pre' = fs
          /\ fs' = fs
          /\ resp' = getInfoResponse(fs, r)
          /\ UNCHANGED <<streak, deleted, jobs>>

---------------------------------------------------------------------------
(* GET /files (lines 203-245).                                             *)

\* lines 219-235: the record of one name
listRecord(f, folder, targetDir, file) ==
  LET filePath == PathJoin(targetDir, file)
      relativePath == IF folder # <<>> THEN folder \o <<"/">> \o file ELSE file
  IN [name |-> file,
      path |-> filePath,
      relativePath |-> relativePath,
      url |-> IF isFile(f, filePath)
                THEN [null |-> FALSE, str |-> Origin \o <<"/">> \o relativePath]
                ELSE [null |-> TRUE, str |-> <<>>],
      size |-> statSize(f, filePath),
      isFile |-> isFile(f, filePath),
      isDirectory |-> isDirectory(f, filePath)]

\* lines 219, 224-234: files.map over the names read, in the order
\* readdirSync returned them.  That order is not the program's to choose,
\* so the array is kept as the bag of its records
fileList(f, folder, targetDir, files) ==
  LET rec(file) == listRecord(f, folder, targetDir, file)
  IN [x \in {rec(file) : file \in files} |->
        Cardinality({file \in files : rec(file) = x})]

\* the list handler as it would be without the isDirectory check
listResponse_noDirCheck(f, r) ==
  LET folder == r.folder
      targetDir == PathJoin(publicDir, folder)
  IN IF ~existsSync(f, targetDir)
       THEN [status |-> 404, kind |-> "NotFound"]
       ELSE LET list == fileList(f, folder, targetDir, readdirSync(f, targetDir))
            IN [status |-> 200, kind |-> "OK",
                folder |-> folder,
                total |-> BagCardinality(list),
                files |-> list]

\* lines 204-241
listResponse(f, r) ==
  LET folder == r.folder
      targetDir == PathJoin(publicDir, folder)
  IN IF ~existsSync(f, targetDir)
       THEN [status |-> 404, kind |-> "NotFound"]
     ELSE IF ~isDirectory(f, targetDir)
       THEN [status |-> 400, kind |-> "NotADirectory"]
     ELSE LET list == fileList(f, folder, targetDir, readdirSync(f, targetDir))
          IN [status |-> 200, kind |-> "OK",
              folder |-> folder,
              total |-> BagCardinality(list),
              files |-> list]

List ==
  /\ Idle
  /\ \E s \in FolderStrings :
       LET r == [op |-> "List", folder |-> s]
       IN /\ req' = r
          /\ pre' = fs
          /\ fs' = fs
          /\ resp' = listResponse(fs, r)
          /\ UNCHANGED <<streak, deleted, jobs>>

---------------------------------------------------------------------------

Init ==
  /\ fs = InitFs
  /\ pre = InitFs
  /\ req = NoRequest
  /\ resp = NoResponse
  /\ streak = <<>>
  /\ deleted = {}
  /\ jobs = [i \in Slots |-> NoJob]

Next == Upload \/ Delete \/ GetInfo \/ List \/ Reply

Spec == Init /\ [][Next]_vars

---------------------------------------------------------------------------
(* Uploads served concurrently.  multer runs destination and filename of  *)
(* a file part in one turn of the event loop: both are synchronous and    *)
(* call cb at once (lines 28-107).  The write stream then opens the file  *)
(* and writes the bytes in later turns, and the handler (lines 119-141)   *)
(* runs when the stream has finished.  The turns of the requests in       *)
(* flight interleave.  Every request here carries a file and names a      *)
(* directory that can be made.                                            *)

ConcUploads ==
  {UploadReq(d, FALSE, Empty, S_at, b) : d \in {S_p, S_p_q}, b \in Payloads}

\* a job that ended, with the response it got
EndedJob(r, name, p, rsp) ==
  [stage |-> "done", req |-> r, name |-> name, path |-> p, resp |-> rsp]

\* lines 28-107: the target directory is made and the name is chosen
StartUpload(i) ==
  /\ jobs[i].stage = "idle"
  /\ Cardinality(DOMAIN fs) < Cardinality(DOMAIN InitFs) + MaxEntries
  /\ \E r \in ConcUploads :
       IF mkdirThrows(fs, uploadDir(r))
         THEN /\ fs' = fs
              /\ jobs' = [jobs EXCEPT ![i] =
                   EndedJob(r, Empty, uploadDir(r), [status |-> 0, kind |-> "Unhandled"])]
         ELSE LET f1 == mkdirSync(fs, uploadDir(r))
              IN /\ fs' = f1
                 /\ jobs' = [jobs EXCEPT ![i] =
                      [stage |-> "named", req |-> r,
                       name |-> filename(f1, r), path |-> finalPath(f1, r)]]
  /\ UNCHANGED <<pre, req, resp, streak, deleted>>

\* the write stream opens the final path: the file is created, or emptied
\* when it is there already
OpenFile(i) ==
  /\ jobs[i].stage = "named"
  /\ LET j == jobs[i]
     IN IF writeFails(fs, j.path)
          THEN /\ fs' = fs
               /\ jobs' = [jobs EXCEPT ![i] =
                    EndedJob(j.req, j.name, j.path, [status |-> 500, kind |-> "IOFailure"])]
          ELSE /\ fs' = writeFile(fs, j.path, <<>>)
               /\ jobs' = [jobs EXCEPT ![i].stage = "open"]
  /\ UNCHANGED <<pre, req, resp, streak, deleted>>

\* the bytes a stream opened at the start of a file leaves in it
streamWrite(old, data) == data \o SubSeq(old, Len(data) + 1, Len(old))

\* the write stream writes the bytes of the upload from the start of the file
WriteData(i) ==
  /\ jobs[i].stage = "open"
  /\ LET j == jobs[i]
     IN fs' = writeFile(fs, j.path, streamWrite(fs[j.path.segs].data, j.req.data))
  /\ jobs' = [jobs EXCEPT ![i].stage = "written"]
  /\ UNCHANGED <<pre, req, resp, streak, deleted>>

\* lines 119-141: the handler answers the request
Respond(i) ==
  /\ jobs[i].stage = "written"
  /\ LET j == jobs[i]
     IN jobs' = [jobs EXCEPT ![i] =
                  EndedJob(j.req, j.name, j.path, uploadResponse(j.req, j.name, j.path))]
  /\ UNCHANGED <<fs, pre, req, resp, streak, deleted>>

\* the request is over
Finish(i) ==
  /\ jobs[i].stage = "done"
  /\ jobs' = [jobs EXCEPT ![i] = NoJob]
  /\ UNCHANGED <<fs, pre, req, resp, streak, deleted>>

NextConc ==
  \E i \in Slots :
    StartUpload(i) \/ OpenFile(i) \/ WriteData(i) \/ Respond(i) \/ Finish(i)

SpecConc == Init /\ [][NextConc]_vars

---------------------------------------------------------------------------
(* Properties.  A state with req = NoRequest is between requests; in any   *)
(* other state req was served on the tree pre and gave resp and fs.        *)

Served(op) == req.op = op

\* the path lies in the storage root (the root itself included)
Inside(segs) ==
  /\ Len(segs) >= Len(publicDir.segs)
  /\ SubSeq(segs, 1, Len(publicDir.segs)) = publicDir.segs

\* the entry at segs was created, removed or rewritten by the request
Changed(segs) ==
  \/ (segs \in DOMAIN fs) # (segs \in DOMAIN pre)
  \/ (segs \in DOMAIN fs /\ segs \in DOMAIN pre /\ fs[segs] # pre[segs])

\* the desired name as the client sent it
DesiredName(r) == IF r.bodyFileName # <<>> THEN r.bodyFileName ELSE r.queryFileName

\* the tree an upload's allocator sees: pre with the target directory made
AllocTree == mkdirSync(pre, uploadDir(req))

\* C1: every location an operation creates, removes, rewrites or reads
\* with success lies inside the storage root
C1_PathSafety ==
  /\ \A q \in DOMAIN fs \cup DOMAIN pre : Changed(q) => Inside(q)
  /\ (req.op \in {"Delete", "GetInfo"} /\ resp.kind = "OK")
       => Inside(PathJoin(publicDir, req.filePath).segs)
  /\ (Served("List") /\ resp.kind = "OK")
       => Inside(PathJoin(publicDir, req.folder).segs)

\* C2: the stored uploads of a run of uploads of one original name, without
\* desired name, into one directory have pairwise distinct final names,
\* and each is a file of that directory holding the bytes of its upload
C2_SequentialUploadsDistinct ==
  /\ \A i, j \in 1..Len(streak) :
       i # j => streak[i].filename # streak[j].filename
  /\ \A i \in 1..Len(streak) :
       LET p == PathJoin(streak[i].dir, streak[i].filename)
       IN /\ streak[i].path = p
          /\ p.segs \in DOMAIN fs
          /\ Parent(p.segs) = streak[i].dir.segs
          /\ fs[p.segs] = FileNode(streak[i].data)
  /\ streak # <<>> =>
       Cardinality({q \in DOMAIN fs : q # <<>> /\ Parent(q) = streak[1].dir.segs
                                      /\ fs[q].kind = "file"}) >= Len(streak)

C2_Witness ==
  /\ Len(streak) = 3
  /\ streak[1].data # streak[2].data

\* C3: every file on disk when an upload starts is on disk with the same
\* bytes when the upload is over
C3_NoOverwrite ==
  Served("Upload") =>
    \A q \in DOMAIN pre :
      pre[q].kind = "file" => (q \in DOMAIN fs /\ fs[q] = pre[q])

C3_Witness ==
  /\ Served("Upload")
  /\ resp.kind = "OK"
  /\ customFileName(req) # <<>>
  /\ existsSync(pre, PathJoin(uploadDir(req), candidateName(req)))
  /\ pre[PathJoin(uploadDir(req), candidateName(req)).segs].data # req.data

\* the candidate name the allocator is to start from, for a desired name
ExpectedCandidate(desired, original) ==
  IF desired = <<>> THEN original
  ELSE IF extname(desired) # <<>> THEN desired
  ELSE desired \o extname(original)

NameIsCandidate(c) ==
  /\ candidateName(req) = c
  /\ ~existsSync(AllocTree, PathJoin(uploadDir(req), c)) => resp.filename = c

\* C4 as stated: the candidate is built from the desired name verbatim,
\* and is the final name when unused
C4_CandidateVerbatim ==
  (Served("Upload") /\ resp.kind = "OK")
    => NameIsCandidate(ExpectedCandidate(DesiredName(req), req.originalname))

\* C4 amended: the candidate is built from the desired name with its
\* surrounding whitespace removed, and is the final name when unused
C4_CandidateTrimmed ==
  (Served("Upload") /\ resp.kind = "OK")
    => NameIsCandidate(ExpectedCandidate(Trim(DesiredName(req)), req.originalname))

C4_Witness ==
  /\ Served("Upload")
  /\ resp.kind = "OK"
  /\ req.bodyFileName = S_sp_cu
  /\ resp.filename = S_cu

\* C5: when the candidate exists in the target directory the final name is
\* base_k.ext of the candidate for the least k >= 1 whose name is unused
C5_SmallestFreeCounter ==
  (Served("Upload") /\ resp.kind = "OK")
    => LET dir == uploadDir(req)
           c == candidateName(req)
           numbered(k) == basename(c, extname(c)) \o <<"_">> \o NumToStr(k) \o extname(c)
           used(k) == existsSync(AllocTree, PathJoin(dir, numbered(k)))
       IN existsSync(AllocTree, PathJoin(dir, c))
            => \E k \in 1..(Cardinality(DOMAIN fs) + 1) :
                 /\ resp.filename = numbered(k)
                 /\ ~used(k)
                 /\ \A j \in 1..(k - 1) : used(j)

C5_Witness ==
  /\ Served("Upload")
  /\ resp.kind = "OK"
  /\ req.bodyDir = S_p
  /\ req.bodyFileName = S_a
  /\ resp.filename = S_a1t
  /\ resp.relativePath = <<"p", "/", "a", "_", "1", ".", "t">>
  /\ <<S_srv, S_public, S_p, S_at>> \in DOMAIN fs

\* C6: a delete of a directory answers NotAFile, a delete of an absent
\* path answers NotFound, and both leave the tree as it was
C6_DeleteFailuresChangeNothing ==
  Served("Delete") =>
    LET p == PathJoin(publicDir, req.filePath)
    IN /\ (p.segs \in DOMAIN pre /\ pre[p.segs].kind = "dir")
            => (resp.kind = "NotAFile" /\ fs = pre)
       /\ p.segs \notin DOMAIN pre
            => (resp.kind = "NotFound" /\ fs = pre)

C6_Witness ==
  /\ Served("Delete")
  /\ resp.kind = "NotAFile"
  /\ \E q \in DOMAIN pre : q # <<>> /\ Parent(q) = PathJoin(publicDir, req.filePath).segs

\* C7: a path deleted with success, and not stored to by an upload since,
\* answers NotFound to Get Info
C7_DeletedStaysNotFound ==
  /\ (Served("Delete") /\ resp.kind = "OK") => req.filePath \in deleted
  /\ \A s \in deleted :
       getInfoResponse(fs, [op |-> "GetInfo", filePath |-> s]).kind = "NotFound"
  /\ (Served("GetInfo") /\ req.filePath \in deleted) => resp.kind = "NotFound"

C7_Witness ==
  /\ Served("GetInfo")
  /\ req.filePath \in deleted
  /\ resp.kind = "NotFound"

\* C8: List and Get Info leave the tree as it was; List, Get Info and
\* Delete create nothing and answer NotFound for an absent path; List of
\* a regular file answers NotADirectory
C8_ReadsCreateNothing ==
  /\ req.op \in {"List", "GetInfo"} => fs = pre
  /\ req.op \in {"List", "GetInfo", "Delete"} => DOMAIN fs \subseteq DOMAIN pre
  /\ (req.op \in {"GetInfo", "Delete"}
        /\ PathJoin(publicDir, req.filePath).segs \notin DOMAIN pre)
       => resp.kind = "NotFound"
  /\ Served("List") =>
       LET t == PathJoin(publicDir, req.folder)
       IN /\ t.segs \notin DOMAIN pre => resp.kind = "NotFound"
          /\ (t.segs \in DOMAIN pre /\ pre[t.segs].kind = "file" /\ ~t.trail)
               => resp.kind = "NotADirectory"

C8_Witness ==
  /\ Served("List")
  /\ resp.kind = "NotADirectory"

\* C9: a listing holds one record for each immediate child of the
\* directory and no other record, total is their number, and each record
\* tells whether the child is a file and, for a file, the length of its bytes
C9_ListExact ==
  (Served("List") /\ resp.kind = "OK") =>
    LET t == PathJoin(publicDir, req.folder).segs
        kids == {q \in DOMAIN fs : q # <<>> /\ Parent(q) = t}
    IN /\ \A q \in kids :
            \E x \in DOMAIN resp.files :
              /\ x.path.segs = q
              /\ x.name = q[Len(q)]
              /\ resp.files[x] = 1
              /\ x.isFile = (fs[q].kind = "file")
              /\ x.isDirectory = (fs[q].kind = "dir")
              /\ x.isFile => x.size = Len(fs[q].data)
       /\ \A x \in DOMAIN resp.files : x.path.segs \in kids
       /\ resp.total = Cardinality(kids)
       /\ resp.total = BagCardinality(resp.files)

C9_Witness ==
  /\ Served("List")
  /\ resp.kind = "OK"
  /\ resp.total = 2
  /\ \E x, y \in DOMAIN resp.files :
       /\ x.name = S_at /\ x.isFile /\ x.size = 1
       /\ y.name = S_cu /\ y.isFile /\ y.size = 2

\* C10: after a stored upload without desired name, a listing asked with
\* the upload's directory string succeeds and holds a file record of the
\* final name
C10_ReadAfterWrite ==
  (Served("Upload") /\ resp.kind = "OK" /\ customFileName(req) = <<>>) =>
    LET l == listResponse(fs, [op |-> "List", folder |-> dirParam(req)])
    IN /\ l.kind = "OK"
       /\ \E x \in DOMAIN l.files : x.name = resp.filename /\ x.isFile

\* C11: Get Info asked with the relative path an upload returned succeeds
\* and tells the length of the uploaded bytes
C11_RoundTrip ==
  (Served("Upload") /\ resp.kind = "OK") =>
    LET i == getInfoResponse(fs, [op |-> "GetInfo", filePath |-> resp.relativePath])
    IN /\ i.kind = "OK"
       /\ i.record.isFile
       /\ i.record.size = Len(req.data)

\* C12: a record of a listing or of Get Info carries a URL exactly when
\* its entry is a file
C12_UrlIffFile ==
  /\ (Served("List") /\ resp.kind = "OK")
       => \A x \in DOMAIN resp.files : (~x.url.null) = x.isFile
  /\ (Served("GetInfo") /\ resp.kind = "OK")
       => (~resp.record.url.null) = resp.record.isFile

\* C13: the target directory comes from the body field when that is not
\* empty and from the query field otherwise, and the folder of the response
\* is the normalised target directory
C13_DirSourceAndEcho ==
  (Served("Upload") /\ resp.kind = "OK") =>
    LET d == IF req.bodyDir # <<>> THEN req.bodyDir ELSE req.queryDir
        target == PathJoin(publicDir, StripTrailingSlashes(StripLeadingSlashes(Trim(d))))
    IN /\ uploadDir(req) = target
       /\ target.segs \in DOMAIN fs
       /\ PathJoin(publicDir, resp.folder) = target

\* the kinds of the responses the handlers write themselves and of the
\* 500 the framework writes for an error a middleware reports
AnsweredKinds ==
  {"OK", "NoFileProvided", "NotFound", "NotAFile", "NotADirectory", "IOFailure"}

\* C14: every request ends with a success or an error response, and an
\* upload whose target directory cannot be created ends with IOFailure
C14_EveryRequestAnswered ==
  /\ ~Idle => resp.kind \in AnsweredKinds
  /\ (Served("Upload") /\ req.hasFile /\ mkdirThrows(pre, uploadDir(req)))
       => resp.kind = "IOFailure"

\* C16: an upload without a file is refused with NoFileProvided and leaves
\* the disk as it was, whatever directory string it carries
C16_NoFileChangesNothing ==
  (Served("Upload") /\ ~req.hasFile) =>
    /\ resp.kind = "NoFileProvided"
    /\ resp.status = 400
    /\ fs = pre

\* an upload without a file named a directory that does not exist
C16_Witness ==
  /\ Served("Upload")
  /\ ~req.hasFile
  /\ req.bodyDir = S_p
  /\ uploadDir(req).segs \notin DOMAIN pre
  /\ resp.kind = "NoFileProvided"

\* C18: normalising a directory string a second time changes nothing, so an
\* upload that sends the normalised directory of an earlier upload is
\* stored in the directory of the earlier upload
C18_NormalisationIdempotent ==
  (Served("Upload") /\ resp.kind = "OK") =>
    LET once == cleanDir(dirParam(req))
        again == [req EXCEPT !.bodyDir = once, !.queryDir = Empty]
    IN /\ cleanDir(once) = once
       /\ uploadDir(again) = uploadDir(req)

\* C19: the stored file is an immediate child of the target directory,
\* inside the storage root when the target directory is, whatever the
\* desired name, and the name the response tells is the name of that file
C19_ImmediateChild ==
  (Served("Upload") /\ resp.kind = "OK") =>
    /\ Parent(resp.path.segs) = uploadDir(req).segs
    /\ Inside(uploadDir(req).segs) => Inside(resp.path.segs)
    /\ resp.path = PathJoin(uploadDir(req), resp.filename)
    /\ resp.path.segs \notin DOMAIN pre

\* C20: a successful Delete removes the one file it names; every other
\* file and every directory is there afterwards as it was before
C20_DeleteRemovesOneFile ==
  (Served("Delete") /\ resp.kind = "OK") =>
    LET target == PathJoin(publicDir, req.filePath).segs
    IN /\ target \in DOMAIN pre
       /\ pre[target].kind = "file"
       /\ DOMAIN fs = DOMAIN pre \ {target}
       /\ \A q \in DOMAIN fs : fs[q] = pre[q]

\* a file was deleted from a sub-directory that holds another file
C20_Witness ==
  /\ Served("Delete")
  /\ resp.kind = "OK"
  /\ LET target == PathJoin(publicDir, req.filePath).segs
     IN /\ Parent(target) # publicDir.segs
        /\ Parent(target) \in DOMAIN fs
        /\ \E q \in DOMAIN fs :
             /\ q # <<>>
             /\ Parent(q) = Parent(target)
             /\ fs[q].kind = "file"

\* the job of slot i holds an upload that no step has refused
InFlight(i) == jobs[i].stage \in {"named", "open", "written"}

Ended(i) == jobs[i].stage = "done"

\* C15: the target directory of an upload and the directories above it
\* exist from the moment the name is chosen, before the file is opened, and
\* making them never fails for a directory that is there already: every
\* upload, alone or beside another one, ends with success and its file
\* lies in its target directory
C15_DirectoryCreation ==
  \A i \in Slots :
    /\ (InFlight(i) \/ Ended(i)) =>
         \A q \in Prefixes(uploadDir(jobs[i].req).segs) :
           q \in DOMAIN fs /\ fs[q].kind = "dir"
    /\ (jobs[i].stage \in {"open", "written"} \/ Ended(i)) =>
         /\ jobs[i].path.segs \in DOMAIN fs
         /\ fs[jobs[i].path.segs].kind = "file"
         /\ Parent(jobs[i].path.segs) = uploadDir(jobs[i].req).segs
    /\ Ended(i) => jobs[i].resp.kind = "OK"

\* two uploads in flight together were stored in one directory, made by
\* the first of them, under two names
C15_Witness ==
  /\ Ended(1) /\ Ended(2)
  /\ jobs[1].resp.kind = "OK" /\ jobs[2].resp.kind = "OK"
  /\ uploadDir(jobs[1].req) = uploadDir(jobs[2].req)
  /\ uploadDir(jobs[1].req).segs \notin DOMAIN InitFs
  /\ jobs[1].path # jobs[2].path
  /\ fs[jobs[1].path.segs].data = jobs[1].req.data
  /\ fs[jobs[2].path.segs].data = jobs[2].req.data

\* C17: two uploads that were given the same final path, which happens
\* when both names were chosen before either file was opened, both end
\* with success and tell the same name, and one file is there for the two
C17_RaceOverwrites ==
  \A i, j \in Slots :
    (/\ i # j
     /\ InFlight(i) \/ Ended(i)
     /\ InFlight(j) \/ Ended(j)
     /\ jobs[i].path = jobs[j].path) =>
      /\ Ended(i) =>
           /\ jobs[i].resp.kind = "OK"
           /\ jobs[i].resp.filename = jobs[j].name
           /\ jobs[i].resp.path = jobs[j].path
      /\ (Ended(i) /\ Ended(j)) =>
           /\ fs[jobs[i].path.segs].kind = "file"
           /\ Len(fs[jobs[i].path.segs].data)
                \in {Len(jobs[i].req.data), Len(jobs[j].req.data)}

\* both uploads of different bytes answered with the same name, and the
\* file holds the bytes of the second alone
C17_Witness ==
  /\ Ended(1) /\ Ended(2)
  /\ jobs[1].resp.kind = "OK" /\ jobs[2].resp.kind = "OK"
  /\ jobs[1].resp.filename = jobs[2].resp.filename
  /\ jobs[1].resp.path = jobs[2].resp.path
  /\ jobs[1].req.data # jobs[2].req.data
  /\ fs[jobs[2].path.segs].data = jobs[2].req.data

===========================================================================
